---- MODULE Spec2Model ----
(***************************************************************************)
(* jstream: a streaming parser that encodes an ASCII JSON text into a flat *)
(* buffer of words, and the two walkers (dump, skip) that read the buffer. *)
(*                                                                         *)
(* The recursive descent of jstream.c is modelled as a stack machine: one  *)
(* frame per active C function, one action per basic block between two     *)
(* calls.  A parser context is one struct jstream_param_s with its own     *)
(* character source; the two static scratch arrays of jstream_number and   *)
(* jstream_string are process-wide, as in the C file.                      *)
(***************************************************************************)
EXTENDS Integers, Sequences, FiniteSets, TLC

(*************************** value and error codes *************************)
\* the null pointer
NULL == 0
\* the codes of the values: (unsigned) NULL, TRUE, FALSE, NUMBER, STRING, ARRAY, OBJECT
TAG_NULL == 0
TAG_TRUE == 1
TAG_FALSE == 2
TAG_NUMBER == 3
TAG_STRING == 4
TAG_ARRAY == 5
TAG_OBJECT == 6

ERR_NONE == 0
ERR_MEMORY == 1
ERR_VALUE == 2
ERR_NULL == 3
ERR_FALSE == 4
ERR_TRUE == 5
ERR_NUMBER == 6
ERR_NUMBER_TOO_LONG == 7
ERR_EOS_INSIDE_STRING == 8
ERR_COMMA == 9
ERR_COLON == 10
ERR_CLOSED_BRACKET == 11

(******************************* characters ********************************)
\* ASCII codes of the character literals of jstream.c
CH_NUL == 0
CH_TAB == 9
CH_LF == 10
CH_CR == 13
CH_SP == 32
CH_QUOTE == 34
CH_PLUS == 43
CH_COMMA == 44
CH_MINUS == 45
CH_DOT == 46
CH_0 == 48
CH_1 == 49
CH_9 == 57
CH_COLON == 58
CH_UE == 69
CH_LBRACKET == 91
CH_RBRACKET == 93
CH_a == 97
CH_e == 101
CH_f == 102
CH_l == 108
CH_n == 110
CH_r == 114
CH_s == 115
CH_t == 116
CH_u == 117
CH_LBRACE == 123
CH_RBRACE == 125

\* what a character source returns at the end of the stream (fgetc's EOF)
EOF == -1

\* " \r\t\n"
WS == {CH_SP, CH_CR, CH_TAB, CH_LF}
\* " \r\t\n]},:"
LitFollow == WS \cup {CH_RBRACKET, CH_RBRACE, CH_COMMA, CH_COLON}
Digits == CH_0 .. CH_9
\* "0123456789.+-eE"
NumChars == Digits \cup {CH_DOT, CH_PLUS, CH_MINUS, CH_e, CH_UE}

\* conversion of an int to (signed) char
ToChar(c) == ((c + 128) % 256) - 128

\* a search that finds every negative value in every string
StrChr_finds_negative(S, c) == c < 0 \/ ToChar(c) \in (S \cup {CH_NUL})

\* strchr(s, c) != NULL, S the set of the characters of s: c is converted to
\* char, and the terminating NUL of s is part of the string that is searched
StrChr(S, c) == ToChar(c) \in (S \cup {CH_NUL})

(********************************* sizes ***********************************)
\* sizeof(unsigned)
SZ_UNSIGNED == 4
\* sizeof(double)
SZ_DOUBLE == 8
\* BUFNUM of jstream_string
BUFNUM == 16
\* sizeof(buf) of jstream_string
STRBUF == BUFNUM * SZ_UNSIGNED
\* sizeof(buf) of jstream_number
NUMBUF == 128

(********************************* bounds **********************************)
\* the longest text a free character source delivers before it ends
MaxReads == 4
\* the calls of a source past the end of its text that are counted one by one
MaxPast == 3

Parsers == {1, 2}

VARIABLES
    p,          \* p[t]: the fields error, obj, size, clast of *p
    stack,      \* stack[t]: the active C functions of parser t, innermost first
    ret,        \* ret[t]: the value returned by the last function that returned
    status,     \* status[t]: "idle", "run", "done", then "skipped", "dumped"
    result,     \* result[t]: the value returned by jstream
    heap,       \* the live malloc blocks: block -> [owner, words]
    numbuf,     \* static char buf[128] of jstream_number
    strbuf,     \* static char buf[64] of jstream_string
    text,       \* text[t]: the characters of the source of parser t
    pos,        \* pos[t]: how many times p->get was called
    free,       \* free[t]: the text of the source is still being chosen
    oom,        \* allocation may fail
    skipped,    \* skipped[t]: the value returned by jstream_skip
    dumped,     \* dumped[t]: the text written and the value returned by jstream_dump
    alone,      \* alone[t]: how the parse of text[t] ended when it ran alone
    eos         \* eos[t]: the negative value the source of parser t returns at its end

vars == <<p, stack, ret, status, result, heap, numbuf, strbuf, text, pos, free,
          oom, skipped, dumped, alone, eos>>
srcvars == <<text, pos, free>>
walkvars == <<skipped, dumped, alone, eos>>

(********************************* memory **********************************)
\* A block is a sequence of words.  A word is the tuple of its SZ_UNSIGNED
\* bytes, lowest address first (an unsigned is stored low byte first); a word
\* that holds one half of a double is the pair <<half, d>> of the half's index
\* and the double.  A byte nothing was written to is Indet.
Indet == 256
IndetWord == <<Indet, Indet, Indet, Indet>>

\* the word that holds the unsigned n
Word(n) == <<n % 256, (n \div 256) % 256, (n \div 65536) % 256, n \div 16777216>>

IsBytes(w) == Len(w) = SZ_UNSIGNED /\ \A k \in 1 .. SZ_UNSIGNED : w[k] # Indet

\* the unsigned a word holds; -1 when the word is not fully defined bytes
Val(w) == IF IsBytes(w) THEN w[1] + 256 * w[2] + 65536 * w[3] + 16777216 * w[4] ELSE -1

\* the double d as sizeof(double)/sizeof(unsigned) words
DoubleWords(d) == [k \in 1 .. (SZ_DOUBLE \div SZ_UNSIGNED) |-> <<k - 1, d>>]

\* n bytes packed into words; the bytes past the last one are Indet
RECURSIVE Pack(_)
Pack(bs) ==
    IF bs = <<>> THEN <<>>
    ELSE IF Len(bs) >= SZ_UNSIGNED
         THEN <<SubSeq(bs, 1, SZ_UNSIGNED)>> \o Pack(SubSeq(bs, SZ_UNSIGNED + 1, Len(bs)))
         ELSE <<bs \o [k \in 1 .. (SZ_UNSIGNED - Len(bs)) |-> Indet]>>

\* words[from .. from+Len(ws)-1] := ws   (from is a 0-based word offset)
Store(words, from, ws) ==
    [k \in 1 .. Len(words) |->
        IF k > from /\ k <= from + Len(ws) THEN ws[k - from] ELSE words[k]]

\* a char array as the sequence of its elements
ArraySeq(buf, n) == [k \in 1 .. n |-> buf[k - 1]]

\* the C string held by a char array of n elements: the characters before the
\* first NUL (all n of them when there is none)
CStr(buf, n) ==
    LET ends == {k \in 0 .. n : k = n \/ buf[k] = CH_NUL}
        len == CHOOSE k \in ends : \A j \in ends : k <= j
    IN  [k \in 1 .. len |-> buf[k - 1]]

\* malloc's choice of a block: the lowest address that is not in use
NewBlock(h) == CHOOSE b \in 1 .. (Cardinality(DOMAIN h) + 1) : b \notin DOMAIN h

\* a free that releases nothing
Leak(h, b) == h

\* free(b)
Release(h, b) == IF b = NULL THEN h ELSE [x \in (DOMAIN h) \ {b} |-> h[x]]

\* jstream_align: the words that hold size bytes
jstream_align(size) ==
    IF size % SZ_UNSIGNED = 0 THEN size \div SZ_UNSIGNED ELSE 1 + size \div SZ_UNSIGNED

\* an expansion that allocates a new block and does not copy the old words
jstream_expand_fresh(t, q, h, n, ok) ==
    IF ~ok THEN [err |-> ERR_MEMORY, q |-> q, h |-> h, at |-> 0]
    ELSE LET b == NewBlock(h) IN
         [err |-> ERR_NONE,
          q |-> [q EXCEPT !.obj = b, !.size = q.size + n],
          h |-> [x \in ((DOMAIN h) \ {q.obj}) \cup {b} |->
                    IF x = b THEN [owner |-> t, words |-> [k \in 1 .. (q.size + n) |-> IndetWord]]
                    ELSE h[x]],
          at |-> q.size]

\* jstream_expand(p, n) for parser t with fields q and heap h; ok is whether
\* malloc/realloc finds the memory.  err is the code thrown (ERR_NONE: none),
\* at the offset of the first new word.  realloc moves the block: the old
\* one is released and every pointer into it dangles.
jstream_expand(t, q, h, n, ok) ==
    IF ~ok THEN [err |-> ERR_MEMORY, q |-> q, h |-> h, at |-> 0]
    ELSE IF q.obj = NULL
    THEN LET b == NewBlock(h) IN
         [err |-> ERR_NONE,
          q |-> [q EXCEPT !.obj = b, !.size = n],
          h |-> [x \in (DOMAIN h) \cup {b} |->
                    IF x = b THEN [owner |-> t, words |-> [k \in 1 .. n |-> IndetWord]]
                    ELSE h[x]],
          at |-> 0]
    ELSE LET newsize == q.size + n
             b == NewBlock(h)
             grown == h[q.obj].words \o [k \in 1 .. n |-> IndetWord] IN
         [err |-> ERR_NONE,
          q |-> [q EXCEPT !.obj = b, !.size = newsize],
          h |-> [x \in ((DOMAIN h) \ {q.obj}) \cup {b} |->
                    IF x = b THEN [owner |-> t, words |-> grown] ELSE h[x]],
          at |-> q.size]

\* words of block b := Store(...)
Poke(h, b, from, ws) == [h EXCEPT ![b].words = Store(@, from, ws)]

\* ++ p->obj[ilen]
Incr(h, b, ilen) == Poke(h, b, ilen, <<Word(Val(h[b].words[ilen + 1]) + 1)>>)

(********************************* numbers *********************************)
\* A double is modelled by the decimal it was converted from: sign neg,
\* digits m without trailing zero, power of ten e (value m * 10^e), or an
\* infinity.  Two numerals of at most MaxSig significant digits convert to
\* the same double exactly when they denote the same decimal.
MaxSig == 9
\* DBL_MAX is 1.79769313486...e308
DBL_MAX_EXP10 == 308
DBL_MAX_LEAD == 179769313
\* below 10^DBL_TRUE_MIN_EXP10 a decimal converts to zero
DBL_TRUE_MIN_EXP10 == -324
\* the precision of printf's %g
G_PRECISION == 6

RECURSIVE Pow10(_)
Pow10(k) == IF k <= 0 THEN 1 ELSE 10 * Pow10(k - 1)

RECURSIVE NumDigits(_)
NumDigits(n) == IF n < 10 THEN 1 ELSE 1 + NumDigits(n \div 10)

\* the decimal digits of n, most significant first
RECURSIVE DigitsOf(_)
DigitsOf(n) == IF n < 10 THEN <<n>> ELSE Append(DigitsOf(n \div 10), n % 10)

\* the number a sequence of digit characters denotes, from acc on; digits
\* past a value of cap are not read (an exponent that large is out of range
\* anyway, and a numeral of the model has at most MaxSig significant digits)
RECURSIVE DigitsVal(_, _, _)
DigitsVal(ds, acc, cap) ==
    IF ds = <<>> THEN acc
    ELSE IF acc >= cap THEN acc
    ELSE DigitsVal(Tail(ds), 10 * acc + (Head(ds) - CH_0), cap)

\* how many elements of s, from index i on, are in a row in S
Run(s, i, S) ==
    LET ends == {k \in i .. (Len(s) + 1) : k > Len(s) \/ s[k] \notin S}
    IN  (CHOOSE k \in ends : \A j \in ends : k <= j) - i

\* ds without its leading zeros
StripLead(ds) == SubSeq(ds, Run(ds, 1, {CH_0}) + 1, Len(ds))

\* ds without its trailing zeros
StripTrail(ds) ==
    LET keep == {k \in 0 .. Len(ds) : \A j \in (k + 1) .. Len(ds) : ds[j] = CH_0}
    IN  SubSeq(ds, 1, CHOOSE k \in keep : \A j \in keep : k <= j)

Zero(neg) == [inf |-> FALSE, neg |-> neg, m |-> 0, e |-> 0]

\* the double nearest to (-1)^neg * m * 10^e, m without trailing zero
MkDouble(neg, m, e) ==
    IF m = 0 THEN Zero(neg)
    ELSE LET nd == NumDigits(m)
             x == e + nd - 1 IN
         IF x > DBL_MAX_EXP10
            \/ (x = DBL_MAX_EXP10 /\ m * Pow10(MaxSig - nd) > DBL_MAX_LEAD)
         THEN [inf |-> TRUE, neg |-> neg, m |-> 0, e |-> 0]
         ELSE IF x < DBL_TRUE_MIN_EXP10 THEN Zero(neg)
         ELSE [inf |-> FALSE, neg |-> neg, m |-> m, e |-> e]

\* strtod(s, &end) on the C string s: the longest prefix of the form
\* [+-] (digits [. [digits]] | . digits) [(e|E) [+-] digits], its value, and
\* how many characters it takes (0: no conversion, the value is 0)
strtod(s) ==
    LET sg == IF s # <<>> /\ s[1] \in {CH_PLUS, CH_MINUS} THEN 1 ELSE 0
        neg == sg = 1 /\ s[1] = CH_MINUS
        ni == Run(s, sg + 1, Digits)
        dot == IF sg + ni + 1 <= Len(s) /\ s[sg + ni + 1] = CH_DOT THEN 1 ELSE 0
        nf == IF dot = 1 THEN Run(s, sg + ni + 2, Digits) ELSE 0
        mend == sg + ni + (IF ni + nf > 0 THEN dot + nf ELSE 0)
        hase == mend + 1 <= Len(s) /\ s[mend + 1] \in {CH_e, CH_UE}
        esg == IF hase /\ mend + 2 <= Len(s) /\ s[mend + 2] \in {CH_PLUS, CH_MINUS}
               THEN 1 ELSE 0
        ne == IF hase THEN Run(s, mend + 2 + esg, Digits) ELSE 0
        eneg == esg = 1 /\ s[mend + 2] = CH_MINUS
        eabs == DigitsVal(StripLead(SubSeq(s, mend + 2 + esg, mend + 1 + esg + ne)), 0, 100000)
        exp == IF ne = 0 THEN 0 ELSE IF eneg THEN 0 - eabs ELSE eabs
        all == SubSeq(s, sg + 1, sg + ni) \o SubSeq(s, sg + ni + 2, sg + ni + 1 + nf)
        lead == StripLead(all)
        sig == StripTrail(lead)
    IN  IF ni + nf = 0 THEN [end |-> 0, d |-> Zero(FALSE)]
        ELSE [end |-> mend + (IF ne > 0 THEN 1 + esg + ne ELSE 0),
              d |-> MkDouble(neg, DigitsVal(sig, 0, Pow10(MaxSig - 1)),
                              exp - nf + (Len(lead) - Len(sig)))]

\* m rounded to G_PRECISION significant digits, to even on a tie
RoundSig(m) ==
    LET nd == NumDigits(m) IN
    IF nd <= G_PRECISION THEN m
    ELSE LET unit == Pow10(nd - G_PRECISION)
             q == m \div unit
             r == m % unit IN
         IF 2 * r > unit \/ (2 * r = unit /\ q % 2 = 1) THEN q + 1 ELSE q

RECURSIVE DropZeros(_)
DropZeros(n) == IF n # 0 /\ n % 10 = 0 THEN DropZeros(n \div 10) ELSE n

DigitChars(ds) == [k \in 1 .. Len(ds) |-> CH_0 + ds[k]]
Zeros(n) == [k \in 1 .. n |-> CH_0]

\* the characters printf("%g", d) writes
FormatG(d) ==
    LET sign == IF d.neg THEN <<CH_MINUS>> ELSE <<>> IN
    IF d.inf THEN sign \o <<105, CH_n, CH_f>>
    ELSE IF d.m = 0 THEN sign \o <<CH_0>>
    ELSE LET r == RoundSig(d.m)
             \* the decimal exponent of the leading digit, after rounding
             x == d.e + NumDigits(d.m) - 1
                  + (IF NumDigits(r) > NumDigits(d.m \div
                        Pow10(NumDigits(d.m) - G_PRECISION)) THEN 1 ELSE 0)
             ds == DigitChars(DigitsOf(DropZeros(r)))
             n == Len(ds)
         IN  IF x < -4 \/ x >= G_PRECISION
             THEN sign \o <<ds[1]>>
                  \o (IF n > 1 THEN <<CH_DOT>> \o SubSeq(ds, 2, n) ELSE <<>>)
                  \o <<CH_e, IF x < 0 THEN CH_MINUS ELSE CH_PLUS>>
                  \o (LET ax == IF x < 0 THEN 0 - x ELSE x IN
                      IF ax < 10 THEN <<CH_0, CH_0 + ax>> ELSE DigitChars(DigitsOf(ax)))
             ELSE IF x >= 0
             THEN sign
                  \o (IF n >= x + 1 THEN SubSeq(ds, 1, x + 1) ELSE ds \o Zeros(x + 1 - n))
                  \o (IF n > x + 1 THEN <<CH_DOT>> \o SubSeq(ds, x + 2, n) ELSE <<>>)
             ELSE sign \o <<CH_0, CH_DOT>> \o Zeros(0 - x - 1) \o ds

(***************************** character source ****************************)
\* the characters a free source chooses from
Alphabet ==
    {CH_NUL, CH_SP, CH_QUOTE, CH_COMMA, CH_COLON, CH_LBRACKET, CH_RBRACKET,
     CH_LBRACE, CH_RBRACE, CH_1, CH_MINUS, CH_DOT, CH_e, CH_t, CH_r, CH_u}

\* other negative values a source may return at its end: the int whose
\* conversion to char is '\0', the one whose conversion is ' '
EOS_NUL == -256
EOS_SP == -224
EndValues == {EOF, EOS_NUL, EOS_SP}

\* what the next call of p->get may return: the next character of the text,
\* a character of a text that is still being chosen, or the end of the stream
GetSet(t) ==
    IF pos[t] < Len(text[t]) THEN {text[t][pos[t] + 1]}
    ELSE IF free[t] /\ Len(text[t]) < MaxReads THEN Alphabet \cup {eos[t]}
    ELSE {eos[t]}

\* one call of p->get returned c.  pos[t] counts the calls one by one up to
\* MaxPast calls past the end of the text; a parse that goes on calling is
\* then counted as MaxPast - 1 and MaxPast calls past the end in turn.
Got(t, c) ==
    /\ pos' = [pos EXCEPT ![t] = IF @ < Len(text[t]) + MaxPast THEN @ + 1 ELSE @ - 1]
    /\ IF pos[t] < Len(text[t]) THEN UNCHANGED <<text, free>>
       ELSE IF c < 0 THEN /\ free' = [free EXCEPT ![t] = FALSE]
                          /\ UNCHANGED text
       ELSE /\ text' = [text EXCEPT ![t] = Append(@, c)]
            /\ UNCHANGED free

\* whether malloc/realloc may succeed, fail
AllocOutcomes == IF oom THEN {TRUE, FALSE} ELSE {TRUE}

(******************************* control flow ******************************)
Frame(pc) == [pc |-> pc, ilen |-> 0, j |-> 0]
Top(t) == Head(stack[t])
Rest(t) == Tail(stack[t])
At(t, pc) == status[t] = "run" /\ stack[t] # <<>> /\ Head(stack[t]).pc = pc

\* the step ends inside jstream: fields q, heap h, call stack st, returned value r
Commit(t, q, h, st, r) ==
    /\ p' = [p EXCEPT ![t] = q]
    /\ heap' = h
    /\ stack' = [stack EXCEPT ![t] = st]
    /\ ret' = [ret EXCEPT ![t] = r]
    /\ UNCHANGED <<status, result>>

\* a return after a longjmp that frees p->obj and leaves the pointer in place
Raise_keeps_obj(t, q, h, code) ==
    /\ p' = [p EXCEPT ![t] = [q EXCEPT !.error = code]]
    /\ heap' = Release(h, q.obj)
    /\ stack' = [stack EXCEPT ![t] = <<>>]
    /\ status' = [status EXCEPT ![t] = "done"]
    /\ result' = [result EXCEPT ![t] = NULL]
    /\ UNCHANGED ret

\* longjmp(p->env, code): setjmp returns code in jstream, which stores it in
\* p->error, frees p->obj when it is not NULL and returns NULL
Raise(t, q, h, code) ==
    /\ p' = [p EXCEPT ![t] = [q EXCEPT !.error = code, !.obj = NULL]]
    /\ heap' = Release(h, q.obj)
    /\ stack' = [stack EXCEPT ![t] = <<>>]
    /\ status' = [status EXCEPT ![t] = "done"]
    /\ result' = [result EXCEPT ![t] = NULL]
    /\ UNCHANGED ret

\* return c, or return jstream_next(p) when c is white
ReturnOrNext(t, q, h, c) ==
    IF StrChr(WS, c) THEN Commit(t, q, h, <<Frame("next")>> \o Rest(t), ret[t])
    ELSE Commit(t, q, h, Rest(t), c)

(********************************* jstream *********************************)
\* jstream, up to the call of jstream_next
jstream_call(t) ==
    /\ p' = [p EXCEPT ![t] = [error |-> ERR_NONE, obj |-> NULL, size |-> 0, clast |-> -1]]
    /\ stack' = [stack EXCEPT ![t] =
                    <<Frame("next"), Frame("value"), Frame("jstream:return")>>]
    /\ status' = [status EXCEPT ![t] = "run"]
    /\ UNCHANGED <<ret, result, heap, numbuf, strbuf, oom, walkvars>>

\* jstream: jstream_value returned, return p->obj
jstream_return(t) ==
    /\ At(t, "jstream:return")
    /\ status' = [status EXCEPT ![t] = "done"]
    /\ result' = [result EXCEPT ![t] = p[t].obj]
    /\ stack' = [stack EXCEPT ![t] = <<>>]
    /\ UNCHANGED <<p, ret, heap, numbuf, strbuf, srcvars, oom, walkvars>>

\* jstream_next: one turn of the loop
jstream_next(t) ==
    /\ At(t, "next")
    /\ \E c \in GetSet(t) :
        /\ Got(t, c)
        /\ LET q == [p[t] EXCEPT !.clast = c] IN
           IF StrChr(WS, c) THEN Commit(t, q, heap, stack[t], ret[t])
           ELSE Commit(t, q, heap, Rest(t), c)
    /\ UNCHANGED <<numbuf, strbuf, oom, walkvars>>

\* a switch that also takes '.' and '+' as the start of a number
Dispatch_dot_number(c) ==
    CASE c = CH_LBRACKET -> "array"
      [] c = CH_LBRACE -> "object"
      [] c = CH_QUOTE -> "string"
      [] c \in Digits \cup {CH_MINUS, CH_DOT, CH_PLUS} -> "number"
      [] c = CH_f -> "false"
      [] c = CH_n -> "null"
      [] c = CH_t -> "true"
      [] OTHER -> "none"

\* the switch of jstream_value: the function called for the current character
Dispatch(c) ==
    CASE c = CH_LBRACKET -> "array"
      [] c = CH_LBRACE -> "object"
      [] c = CH_QUOTE -> "string"
      [] c \in Digits \cup {CH_MINUS} -> "number"
      [] c = CH_f -> "false"
      [] c = CH_n -> "null"
      [] c = CH_t -> "true"
      [] OTHER -> "none"

jstream_value(t) ==
    /\ At(t, "value")
    /\ LET callee == Dispatch(p[t].clast) IN
       IF callee = "none" THEN Raise(t, p[t], heap, ERR_VALUE)
       ELSE Commit(t, p[t], heap, <<Frame(callee)>> \o Rest(t), ret[t])
    /\ UNCHANGED <<numbuf, strbuf, srcvars, oom, walkvars>>

(********************************* literals ********************************)
\* jstream_true, jstream_false and jstream_null: one call of p->get of the
\* condition; rest are the characters compared, j how many already matched
Literal(t, pc, rest, err, tag) ==
    /\ At(t, pc)
    /\ \E c \in GetSet(t), ok \in AllocOutcomes :
        /\ Got(t, c)
        /\ LET f == Top(t)
               q == p[t] IN
           IF f.j < Len(rest)
           THEN IF c # rest[f.j + 1] THEN Raise(t, q, heap, err)
                ELSE Commit(t, q, heap, <<[f EXCEPT !.j = @ + 1]>> \o Rest(t), ret[t])
           ELSE LET q1 == [q EXCEPT !.clast = c] IN
                IF ~StrChr(LitFollow, c) THEN Raise(t, q1, heap, err)
                ELSE LET x == jstream_expand(t, q1, heap, 1, ok) IN
                     IF x.err # ERR_NONE THEN Raise(t, x.q, x.h, x.err)
                     ELSE ReturnOrNext(t, x.q, Poke(x.h, x.q.obj, x.at, <<Word(tag)>>), c)
    /\ UNCHANGED <<numbuf, strbuf, oom, walkvars>>

\* jstream_null with the error code of jstream_false
jstream_null_as_false(t) == Literal(t, "null", <<CH_u, CH_l, CH_l>>, ERR_FALSE, TAG_NULL)

jstream_false(t) == Literal(t, "false", <<CH_a, CH_l, CH_s, CH_e>>, ERR_FALSE, TAG_FALSE)
jstream_null(t) == Literal(t, "null", <<CH_u, CH_l, CH_l>>, ERR_NULL, TAG_NULL)
jstream_true(t) == Literal(t, "true", <<CH_r, CH_u, CH_e>>, ERR_TRUE, TAG_TRUE)

(***************************** arrays and objects **************************)
\* the first lines of jstream_array and jstream_object: the tag, a count of
\* 0, the index ilen of the count, and the call of jstream_next
Open(t, tag, first) ==
    \E ok \in AllocOutcomes :
        LET x == jstream_expand(t, p[t], heap, 2, ok) IN
        IF x.err # ERR_NONE THEN Raise(t, x.q, x.h, x.err)
        ELSE Commit(t, x.q, Poke(x.h, x.q.obj, x.at, <<Word(tag), Word(0)>>),
                    <<Frame("next"), [pc |-> first, ilen |-> x.at + 1, j |-> 0]>> \o Rest(t),
                    ret[t])

jstream_array(t) ==
    /\ At(t, "array")
    /\ Open(t, TAG_ARRAY, "array:first")
    /\ UNCHANGED <<numbuf, strbuf, srcvars, oom, walkvars>>

\* a first turn of the loop that does not count its element
jstream_array_first_uncounted(t) ==
    /\ At(t, "array:first")
    /\ IF ret[t] # CH_RBRACKET
       THEN Commit(t, p[t], heap,
                   <<Frame("value"), [Top(t) EXCEPT !.pc = "array:elem"]>> \o Rest(t), ret[t])
       ELSE Commit(t, p[t], heap, <<Frame("next")>> \o Rest(t), ret[t])
    /\ UNCHANGED <<numbuf, strbuf, srcvars, oom, walkvars>>

\* if (jstream_next(p) != ']'), then the first turn of the loop up to the
\* call of jstream_value; else return jstream_next(p)
jstream_array_first(t) ==
    /\ At(t, "array:first")
    /\ IF ret[t] # CH_RBRACKET
       THEN Commit(t, p[t], Incr(heap, p[t].obj, Top(t).ilen),
                   <<Frame("value"), [Top(t) EXCEPT !.pc = "array:elem"]>> \o Rest(t), ret[t])
       ELSE Commit(t, p[t], heap, <<Frame("next")>> \o Rest(t), ret[t])
    /\ UNCHANGED <<numbuf, strbuf, srcvars, oom, walkvars>>

\* jstream_value returned: a ',' calls jstream_next, anything else leaves the
\* loop, and then clast must be ']'
jstream_array_elem(t) ==
    /\ At(t, "array:elem")
    /\ IF ret[t] # CH_COMMA
       THEN IF p[t].clast # CH_RBRACKET THEN Raise(t, p[t], heap, ERR_CLOSED_BRACKET)
            ELSE Commit(t, p[t], heap, <<Frame("next")>> \o Rest(t), ret[t])
       ELSE Commit(t, p[t], heap,
                   <<Frame("next"), [Top(t) EXCEPT !.pc = "array:loop"]>> \o Rest(t), ret[t])
    /\ UNCHANGED <<numbuf, strbuf, srcvars, oom, walkvars>>

\* a loop that takes a ']' after a ',' as the end of the array
jstream_array_lenient(t) ==
    /\ At(t, "array:loop")
    /\ IF ret[t] = CH_RBRACKET
       THEN Commit(t, p[t], heap, <<Frame("next")>> \o Rest(t), ret[t])
       ELSE Commit(t, p[t], Incr(heap, p[t].obj, Top(t).ilen),
                   <<Frame("value"), [Top(t) EXCEPT !.pc = "array:elem"]>> \o Rest(t), ret[t])
    /\ UNCHANGED <<numbuf, strbuf, srcvars, oom, walkvars>>

\* the next turn of the loop: ++ p->obj[ilen] and the call of jstream_value
jstream_array_loop(t) ==
    /\ At(t, "array:loop")
    /\ Commit(t, p[t], Incr(heap, p[t].obj, Top(t).ilen),
              <<Frame("value"), [Top(t) EXCEPT !.pc = "array:elem"]>> \o Rest(t), ret[t])
    /\ UNCHANGED <<numbuf, strbuf, srcvars, oom, walkvars>>

jstream_object(t) ==
    /\ At(t, "object")
    /\ Open(t, TAG_OBJECT, "object:first")
    /\ UNCHANGED <<numbuf, strbuf, srcvars, oom, walkvars>>

\* if (jstream_next(p) != '}'), then the first turn of the loop up to the
\* call of jstream_value for the key; else return jstream_next(p)
jstream_object_first(t) ==
    /\ At(t, "object:first")
    /\ IF ret[t] # CH_RBRACE
       THEN Commit(t, p[t], Incr(heap, p[t].obj, Top(t).ilen),
                   <<Frame("value"), [Top(t) EXCEPT !.pc = "object:key"]>> \o Rest(t), ret[t])
       ELSE Commit(t, p[t], heap, <<Frame("next")>> \o Rest(t), ret[t])
    /\ UNCHANGED <<numbuf, strbuf, srcvars, oom, walkvars>>

\* the key was parsed: it must be followed by ':'; then jstream_next and
\* jstream_value for the member's value
jstream_object_key(t) ==
    /\ At(t, "object:key")
    /\ IF ret[t] # CH_COLON THEN Raise(t, p[t], heap, ERR_COLON)
       ELSE Commit(t, p[t], heap,
                   <<Frame("next"), Frame("value"), [Top(t) EXCEPT !.pc = "object:val"]>>
                       \o Rest(t), ret[t])
    /\ UNCHANGED <<numbuf, strbuf, srcvars, oom, walkvars>>

\* the member's value was parsed: '}' leaves the loop, ',' calls jstream_next
jstream_object_val(t) ==
    /\ At(t, "object:val")
    /\ IF ret[t] = CH_RBRACE THEN Commit(t, p[t], heap, <<Frame("next")>> \o Rest(t), ret[t])
       ELSE IF p[t].clast # CH_COMMA THEN Raise(t, p[t], heap, ERR_COMMA)
       ELSE Commit(t, p[t], heap,
                   <<Frame("next"), [Top(t) EXCEPT !.pc = "object:loop"]>> \o Rest(t), ret[t])
    /\ UNCHANGED <<numbuf, strbuf, srcvars, oom, walkvars>>

\* the next turn of the loop: ++ p->obj[ilen] and the call of jstream_value
jstream_object_loop(t) ==
    /\ At(t, "object:loop")
    /\ Commit(t, p[t], Incr(heap, p[t].obj, Top(t).ilen),
              <<Frame("value"), [Top(t) EXCEPT !.pc = "object:key"]>> \o Rest(t), ret[t])
    /\ UNCHANGED <<numbuf, strbuf, srcvars, oom, walkvars>>

(********************************* numbers *********************************)
\* buf[0] = p->clast
jstream_number(t) ==
    /\ At(t, "number")
    /\ numbuf' = [numbuf EXCEPT ![0] = ToChar(p[t].clast)]
    /\ Commit(t, p[t], heap, <<[pc |-> "number:scan", ilen |-> 0, j |-> 1]>> \o Rest(t), ret[t])
    /\ UNCHANGED <<strbuf, srcvars, oom, walkvars>>

\* one turn of the for loop, i < sizeof(buf)
jstream_number_scan(t) ==
    /\ At(t, "number:scan")
    /\ \E c \in GetSet(t) :
        /\ Got(t, c)
        /\ LET i == Top(t).j
               b == ToChar(c) IN
           IF ~StrChr(NumChars, b)
           THEN /\ numbuf' = [numbuf EXCEPT ![i] = CH_NUL]
                /\ Commit(t, [p[t] EXCEPT !.clast = b], heap,
                          <<[Top(t) EXCEPT !.pc = "number:conv"]>> \o Rest(t), ret[t])
           ELSE /\ numbuf' = [numbuf EXCEPT ![i] = b]
                /\ Commit(t, p[t], heap,
                          <<[Top(t) EXCEPT !.j = i + 1,
                                           !.pc = IF i + 1 < NUMBUF THEN "number:scan"
                                                  ELSE "number:conv"]>> \o Rest(t),
                          ret[t])
    /\ UNCHANGED <<strbuf, oom, walkvars>>

\* after the loop: the length check, strtod, the tag and the double
jstream_number_conv(t) ==
    /\ At(t, "number:conv")
    /\ IF Top(t).j = NUMBUF THEN Raise(t, p[t], heap, ERR_NUMBER_TOO_LONG)
       ELSE LET s == CStr(numbuf, NUMBUF)
                r == strtod(s) IN
            IF r.end # Len(s) THEN Raise(t, p[t], heap, ERR_NUMBER)
            ELSE \E ok \in AllocOutcomes :
                    LET x == jstream_expand(t, p[t], heap, 1 + SZ_DOUBLE \div SZ_UNSIGNED, ok) IN
                    IF x.err # ERR_NONE THEN Raise(t, x.q, x.h, x.err)
                    ELSE ReturnOrNext(t, x.q,
                            Poke(x.h, x.q.obj, x.at, <<Word(TAG_NUMBER)>> \o DoubleWords(r.d)),
                            x.q.clast)
    /\ UNCHANGED <<numbuf, strbuf, srcvars, oom, walkvars>>

(********************************* strings *********************************)
jstream_string(t) ==
    /\ At(t, "string")
    /\ \E ok \in AllocOutcomes :
        LET x == jstream_expand(t, p[t], heap, 1, ok) IN
        IF x.err # ERR_NONE THEN Raise(t, x.q, x.h, x.err)
        ELSE Commit(t, x.q, Poke(x.h, x.q.obj, x.at, <<Word(TAG_STRING)>>),
                    <<[pc |-> "string:scan", ilen |-> 0, j |-> 0]>> \o Rest(t), ret[t])
    /\ UNCHANGED <<numbuf, strbuf, srcvars, oom, walkvars>>

\* one turn of the inner for loop while j < sizeof(buf); at j = sizeof(buf)
\* the loop ends without a call of p->get, buf is appended to the buffer and
\* the scan starts again at j = 0
jstream_string_scan(t) ==
    /\ At(t, "string:scan")
    /\ LET j == Top(t).j IN
       IF j < STRBUF
       THEN \E c \in GetSet(t) :
               /\ Got(t, c)
               /\ LET q == [p[t] EXCEPT !.clast = c] IN
                  IF c = CH_QUOTE
                  THEN /\ Commit(t, q, heap,
                                 <<[Top(t) EXCEPT !.pc = "string:end"]>> \o Rest(t), ret[t])
                       /\ UNCHANGED strbuf
                  ELSE IF c < 0
                  THEN /\ Raise(t, q, heap, ERR_EOS_INSIDE_STRING)
                       /\ UNCHANGED strbuf
                  ELSE /\ strbuf' = [strbuf EXCEPT ![j] = ToChar(c)]
                       /\ Commit(t, q, heap, <<[Top(t) EXCEPT !.j = j + 1]>> \o Rest(t), ret[t])
       ELSE /\ \E ok \in AllocOutcomes :
                 LET x == jstream_expand(t, p[t], heap, BUFNUM, ok) IN
                 IF x.err # ERR_NONE THEN Raise(t, x.q, x.h, x.err)
                 ELSE Commit(t, x.q, Poke(x.h, x.q.obj, x.at, Pack(ArraySeq(strbuf, STRBUF))),
                             <<[Top(t) EXCEPT !.j = 0]>> \o Rest(t), ret[t])
            /\ UNCHANGED <<strbuf, srcvars>>
    /\ UNCHANGED <<numbuf, oom, walkvars>>

\* after the loops: buf[j] = '\0', the words for strlen(buf) + 1 bytes, strcpy
jstream_string_end(t) ==
    /\ At(t, "string:end")
    /\ LET buf == [strbuf EXCEPT ![Top(t).j] = CH_NUL]
           s == CStr(buf, STRBUF) IN
       /\ strbuf' = buf
       /\ \E ok \in AllocOutcomes :
            LET x == jstream_expand(t, p[t], heap, jstream_align(Len(s) + 1), ok) IN
            IF x.err # ERR_NONE THEN Raise(t, x.q, x.h, x.err)
            ELSE Commit(t, x.q, Poke(x.h, x.q.obj, x.at, Pack(s \o <<CH_NUL>>)),
                        <<Frame("next")>> \o Rest(t), ret[t])
    /\ UNCHANGED <<numbuf, srcvars, oom, walkvars>>

\* one step of the parse of parser t
Parse(t) ==
    \/ jstream_return(t)
    \/ jstream_next(t)
    \/ jstream_value(t)
    \/ jstream_false(t)
    \/ jstream_null(t)
    \/ jstream_true(t)
    \/ jstream_array(t)
    \/ jstream_array_first(t)
    \/ jstream_array_elem(t)
    \/ jstream_array_loop(t)
    \/ jstream_object(t)
    \/ jstream_object_first(t)
    \/ jstream_object_key(t)
    \/ jstream_object_val(t)
    \/ jstream_object_loop(t)
    \/ jstream_number(t)
    \/ jstream_number_scan(t)
    \/ jstream_number_conv(t)
    \/ jstream_string(t)
    \/ jstream_string_scan(t)
    \/ jstream_string_end(t)

(********************************* walkers *********************************)
\* A position in a buffer is the offset of a word.  NullPos is the NULL
\* pointer.  Wild is the outcome of a walk whose behaviour is undefined: a
\* read through NULL or outside the block, or a read of bytes that were
\* never written or that are part of a double.
NullPos == -1
Wild == -2

\* obj[k] as an unsigned, obj at offset o of words w; Wild when undefined
WordAt(w, o, k) ==
    IF o < 0 \/ o + k >= Len(w) THEN Wild
    ELSE IF Val(w[o + k + 1]) < 0 THEN Wild ELSE Val(w[o + k + 1])

\* ((char*) (obj + 1))[k]; Indet when the byte is outside the block, was
\* never written or is part of a double
ByteAt(w, o, k) ==
    LET wi == o + 1 + k \div SZ_UNSIGNED + 1 IN
    IF wi > Len(w) THEN Indet
    ELSE IF Len(w[wi]) # SZ_UNSIGNED THEN Indet
    ELSE w[wi][(k % SZ_UNSIGNED) + 1]

\* strlen((char*) (obj + 1)): the offset of the first NUL; Wild when a byte
\* that is read before it is undefined
StrLenAt(w, o) ==
    LET ends == {k \in 0 .. SZ_UNSIGNED * Len(w) : ByteAt(w, o, k) \in {CH_NUL, Indet}}
        len == CHOOSE k \in ends : \A j \in ends : k <= j
    IN  IF ByteAt(w, o, len) = Indet THEN Wild ELSE len

\* the n characters of the C string at obj + 1
StrAt(w, o, n) ==
    [k \in 1 .. n |-> w[o + 1 + (k - 1) \div SZ_UNSIGNED + 1][((k - 1) % SZ_UNSIGNED) + 1]]

\* *(double*) (obj + 1) is a double that was stored there
HasDouble(w, o) ==
    /\ o + 1 + SZ_DOUBLE \div SZ_UNSIGNED <= Len(w)
    /\ \A k \in 1 .. (SZ_DOUBLE \div SZ_UNSIGNED) :
        /\ Len(w[o + 1 + k]) = 2
        /\ w[o + 1 + k][1] = k - 1
        /\ w[o + 1 + k][2] = w[o + 2][2]

RECURSIVE jstream_skip(_, _)
RECURSIVE SkipLoop(_, _, _, _)
\* a jstream_skip that takes a Number for one word shorter than it is
jstream_skip_short_number(w, o) ==
    LET tag == WordAt(w, o, 0) IN
    IF tag = Wild THEN Wild
    ELSE IF tag \in {TAG_NULL, TAG_FALSE, TAG_TRUE} THEN o + 1
    ELSE IF tag = TAG_NUMBER THEN o + SZ_DOUBLE \div SZ_UNSIGNED
    ELSE IF tag = TAG_STRING
    THEN LET n == StrLenAt(w, o) IN
         IF n = Wild THEN Wild ELSE o + 1 + jstream_align(n + 1)
    ELSE IF tag \in {TAG_ARRAY, TAG_OBJECT}
    THEN LET len == WordAt(w, o, 1) IN
         IF len = Wild THEN Wild
         ELSE SkipLoop(w, o + 2, len, IF tag = TAG_OBJECT THEN 2 ELSE 1)
    ELSE NullPos

\* the for loops of jstream_skip: n turns are left, each skips per values
SkipLoop(w, o, n, per) ==
    IF n = 0 THEN o
    ELSE LET a == jstream_skip(w, o)
             b == IF per = 2 THEN jstream_skip(w, a) ELSE a IN
         SkipLoop(w, b, n - 1, per)

\* jstream_skip(obj), obj at offset o of the words w
jstream_skip(w, o) ==
    LET tag == WordAt(w, o, 0) IN
    IF tag = Wild THEN Wild
    ELSE IF tag \in {TAG_NULL, TAG_FALSE, TAG_TRUE} THEN o + 1
    ELSE IF tag = TAG_NUMBER THEN o + 1 + SZ_DOUBLE \div SZ_UNSIGNED
    ELSE IF tag = TAG_STRING
    THEN LET n == StrLenAt(w, o) IN
         IF n = Wild THEN Wild ELSE o + 1 + jstream_align(n + 1)
    ELSE IF tag \in {TAG_ARRAY, TAG_OBJECT}
    THEN LET len == WordAt(w, o, 1) IN
         IF len = Wild THEN Wild
         ELSE SkipLoop(w, o + 2, len, IF tag = TAG_OBJECT THEN 2 ELSE 1)
    ELSE NullPos

Lit_null == <<CH_n, CH_u, CH_l, CH_l>>
Lit_false == <<CH_f, CH_a, CH_l, CH_s, CH_e>>
Lit_true == <<CH_t, CH_r, CH_u, CH_e>>
WildDump == [text |-> <<Indet>>, next |-> Wild]

RECURSIVE jstream_dump(_, _)
RECURSIVE DumpLoop(_, _, _, _)
\* the for loops of jstream_dump: n turns are left
DumpLoop(w, o, n, per) ==
    IF n = 0 THEN [text |-> <<>>, next |-> o]
    ELSE LET a == jstream_dump(w, o)
             b == IF per = 2 THEN jstream_dump(w, a.next) ELSE [text |-> <<>>, next |-> a.next]
             r == DumpLoop(w, b.next, n - 1, per) IN
         [text |-> a.text \o (IF per = 2 THEN <<CH_COLON>> \o b.text ELSE <<>>)
                    \o (IF n > 1 THEN <<CH_COMMA>> ELSE <<>>) \o r.text,
          next |-> r.next]

\* jstream_dump(f, obj): the characters written to f and the value returned
jstream_dump(w, o) ==
    LET tag == WordAt(w, o, 0) IN
    IF tag = Wild THEN WildDump
    ELSE IF tag = TAG_NULL THEN [text |-> Lit_null, next |-> o + 1]
    ELSE IF tag = TAG_FALSE THEN [text |-> Lit_false, next |-> o + 1]
    ELSE IF tag = TAG_TRUE THEN [text |-> Lit_true, next |-> o + 1]
    ELSE IF tag = TAG_NUMBER
    THEN IF HasDouble(w, o)
         THEN [text |-> FormatG(w[o + 2][2]), next |-> o + 1 + SZ_DOUBLE \div SZ_UNSIGNED]
         ELSE IF o + 1 + SZ_DOUBLE \div SZ_UNSIGNED <= Len(w)
         THEN [text |-> <<Indet>>, next |-> o + 1 + SZ_DOUBLE \div SZ_UNSIGNED]
         ELSE WildDump
    ELSE IF tag = TAG_STRING
    THEN LET n == StrLenAt(w, o) IN
         IF n = Wild THEN WildDump
         ELSE [text |-> <<CH_QUOTE>> \o StrAt(w, o, n) \o <<CH_QUOTE>>,
               next |-> o + 1 + jstream_align(n + 1)]
    ELSE IF tag \in {TAG_ARRAY, TAG_OBJECT}
    THEN LET len == WordAt(w, o, 1) IN
         IF len = Wild THEN WildDump
         ELSE LET r == DumpLoop(w, o + 2, len, IF tag = TAG_OBJECT THEN 2 ELSE 1) IN
              [text |-> <<IF tag = TAG_ARRAY THEN CH_LBRACKET ELSE CH_LBRACE>> \o r.text
                         \o <<IF tag = TAG_ARRAY THEN CH_RBRACKET ELSE CH_RBRACE>>,
               next |-> r.next]
    ELSE [text |-> <<Indet>>, next |-> NullPos]

\* the words of the buffer jstream returned to parser t
Buffer(t) == heap[result[t]].words

\* the caller walks the buffer it was given: jstream_skip(obj)
Skip(t) ==
    /\ status[t] = "done"
    /\ p[t].error = ERR_NONE
    /\ skipped' = [skipped EXCEPT ![t] = jstream_skip(Buffer(t), 0)]
    /\ status' = [status EXCEPT ![t] = "skipped"]
    /\ UNCHANGED <<p, stack, ret, result, heap, numbuf, strbuf, srcvars, oom, dumped, alone, eos>>

\* jstream_dump(f, obj), as main of jsondump.c calls it after a parse
Dump(t) ==
    /\ status[t] = "skipped"
    /\ dumped' = [dumped EXCEPT ![t] = jstream_dump(Buffer(t), 0)]
    /\ status' = [status EXCEPT ![t] = "dumped"]
    /\ UNCHANGED <<p, stack, ret, result, heap, numbuf, strbuf, srcvars, oom, skipped, alone, eos>>

(****************************** specification ******************************)
Rep(c, n) == [k \in 1 .. n |-> c]

\* texts longer than a free source delivers
Scripts ==
    {   \* [false,null]
        <<91, 102, 97, 108, 115, 101, 44, 110, 117, 108, 108, 93>>,
        \* [1,2,]
        <<91, 49, 44, 50, 44, 93>>,
        \* [1 , ]
        <<91, 49, 32, 44, 32, 93>>,
        \* [nul] and fAlse
        <<91, 110, 117, 108, 93>>,
        <<102, 65, 108, 115, 101>>,
        \* [1,2,3]
        <<91, 49, 44, 50, 44, 51, 93>>,
        \* {"a":1,"b":2}
        <<123, 34, 97, 34, 58, 49, 44, 34, 98, 34, 58, 50, 125>>,
        \* [[[1],{}],"a"]
        <<91, 91, 91, 49, 93, 44, 123, 125, 93, 44, 34, 97, 34, 93>>,
        \* {1:1}
        <<123, 49, 58, 49, 125>>,
        \* +1
        <<43, 49>>,
        \* [true and [true]
        <<91, 116, 114, 117, 101>>,
        <<91, 116, 114, 117, 101, 93>>,
        \* {"":1 and {"":1] and {"":1, and {"":true and {"":1 } and {"" :1}
        <<123, 34, 34, 58, 49>>,
        <<123, 34, 34, 58, 49, 93>>,
        <<123, 34, 34, 58, 49, 44>>,
        <<123, 34, 34, 58, 116, 114, 117, 101>>,
        <<123, 34, 34, 58, 49, 32, 125>>,
        <<123, 34, 34, 32, 58, 49, 125>>,
        \* {"":1}, and the same with a NUL after the key, after the member
        <<123, 34, 34, 58, 49, 125>>,
        <<123, 34, 34, 0, 58, 49, 125>>,
        <<123, 34, 34, 58, 49, 0, 125>>,
        \* 1.2.3 and 1+2 and 1e+ and 1E+1 and 1E-1 followed by a space
        <<49, 46, 50, 46, 51>>,
        <<49, 43, 50>>,
        <<49, 101, 43>>,
        <<49, 69, 43, 49>>,
        <<49, 69, 45, 49, 32>>,
        \* 1234567 and a space
        <<49, 50, 51, 52, 53, 54, 55, 32>>,
        \* -0.5e10 and a space
        <<45, 48, 46, 53, 101, 49, 48, 32>>,
        \* numerals of 127 and 128 characters, and one of 127 followed by NUL
        <<49>> \o Rep(48, 126) \o <<32>>,
        <<49>> \o Rep(48, 127) \o <<32>>,
        <<49>> \o Rep(48, 126) \o <<0, 32>>,
        \* strings of 63, 64, 65 and 129 bytes
        <<34>> \o Rep(97, 63) \o <<34>>,
        <<34>> \o Rep(97, 64) \o <<34>>,
        <<34>> \o Rep(97, 65) \o <<34>>,
        <<34>> \o Rep(97, 129) \o <<34>>,
        \* the strings of a backslash, and of NUL a b c
        <<34, 92, 34>>,
        <<34, 0, 97, 98, 99, 34>>,
        \* an array of a string of 64 bytes, the first of them NUL, and 1
        <<91, 34, 0>> \o Rep(97, 63) \o <<34, 44, 49, 93>>,
        \* a string of 64 bytes, the first of them NUL
        <<34, 0>> \o Rep(97, 63) \o <<34>>
    }

InitCommon ==
    /\ p = [t \in Parsers |-> [error |-> ERR_NONE, obj |-> NULL, size |-> 0, clast |-> 0]]
    /\ stack = [t \in Parsers |-> <<>>]
    /\ ret = [t \in Parsers |-> 0]
    /\ status = [t \in Parsers |-> "idle"]
    /\ result = [t \in Parsers |-> NULL]
    /\ heap = <<>>
    /\ numbuf = [k \in 0 .. NUMBUF - 1 |-> CH_NUL]
    /\ strbuf = [k \in 0 .. STRBUF - 1 |-> CH_NUL]
    /\ pos = [t \in Parsers |-> 0]
    /\ skipped = [t \in Parsers |-> 0]
    /\ dumped = [t \in Parsers |-> [text |-> <<>>, next |-> 0]]
    /\ alone = [t \in Parsers |-> [known |-> FALSE, error |-> ERR_NONE, words |-> <<>>]]

\* parser 1 reads a free source or one of the scripts
Init ==
    /\ InitCommon
    /\ \E s \in {<<>>} \cup Scripts :
        /\ text = [t \in Parsers |-> IF t = 1 THEN s ELSE <<>>]
        /\ free = [t \in Parsers |-> t = 1 /\ s = <<>>]
    /\ oom = TRUE
    /\ eos = [t \in Parsers |-> EOF]

\* the program calls jstream(&param)
Start ==
    /\ status[1] = "idle"
    /\ jstream_call(1)
    /\ UNCHANGED srcvars

\* the program parses, with a second struct jstream_param_s, the text that
\* jstream_dump wrote for the buffer of the first
Reparse ==
    /\ status[1] = "dumped"
    /\ status[2] = "idle"
    /\ Indet \notin {dumped[1].text[k] : k \in 1 .. Len(dumped[1].text)}
    /\ text' = [text EXCEPT ![2] = dumped[1].text]
    /\ jstream_call(2)
    /\ UNCHANGED <<pos, free>>

Next ==
    \/ Start
    \/ \E t \in Parsers : Parse(t)
    \/ Skip(1)
    \/ Dump(1)
    \/ Reparse

Spec == Init /\ [][Next]_vars

(**************************** two parses at once ***************************)
\* the texts of the two threads
ParTexts ==
    {   \* [true,false,null,12]
        <<91, 116, 114, 117, 101, 44, 102, 97, 108, 115, 101, 44, 110, 117, 108, 108, 44,
          49, 50, 93>>,
        \* {"a":1,"b":"c"}
        <<123, 34, 97, 34, 58, 49, 44, 34, 98, 34, 58, 34, 99, 34, 125>>
    }

InitPar ==
    /\ InitCommon
    /\ text \in [Parsers -> ParTexts]
    /\ free = [t \in Parsers |-> FALSE]
    /\ oom = FALSE
    /\ eos = [t \in Parsers |-> EOF]

\* a thread parses its text while no other thread is in jstream
SoloStart(t) ==
    /\ status[t] = "idle"
    /\ ~alone[t].known
    /\ \A u \in Parsers : status[u] = "idle"
    /\ jstream_call(t)
    /\ UNCHANGED srcvars

\* the parse that ran alone is over: its outcome is kept and the source is
\* set back to the start of the text
SoloEnd(t) ==
    /\ status[t] = "done"
    /\ ~alone[t].known
    /\ alone' = [alone EXCEPT ![t] =
                    [known |-> TRUE, error |-> p[t].error,
                     words |-> IF result[t] = NULL THEN <<>> ELSE Buffer(t)]]
    /\ status' = [status EXCEPT ![t] = "idle"]
    /\ result' = [result EXCEPT ![t] = NULL]
    /\ heap' = Release(heap, result[t])
    /\ pos' = [pos EXCEPT ![t] = 0]
    /\ UNCHANGED <<p, stack, ret, numbuf, strbuf, text, free, oom, skipped, dumped, eos>>

\* a thread calls jstream while the other thread may be in jstream too
ParStart(t) ==
    /\ status[t] = "idle"
    /\ \A u \in Parsers : alone[u].known
    /\ jstream_call(t)
    /\ UNCHANGED srcvars

NextPar ==
    \E t \in Parsers :
        \/ SoloStart(t)
        \/ SoloEnd(t)
        \/ ParStart(t)
        \/ Parse(t)

SpecPar == InitPar /\ [][NextPar]_vars

(************************* sources and their ends **************************)
\* one parse, of a text that ends with any of the end values; the thread
\* that is inside jstream goes on running
EndTexts ==
    { <<>>,
      <<34, 97, 34>>,                                             \* "a"
      <<34, 97>>,                                                 \* "a
      <<116, 114, 117, 101>>,                                     \* true
      <<102, 97, 108, 115, 101, 32>>,                             \* false
      <<110, 117, 108, 108, 32>>,                                 \* null
      <<91, 34, 97, 34>>,                                         \* ["a"
      <<91, 34, 97, 34, 44, 34, 97, 34, 93>>,                     \* ["a","a"]
      <<123, 34, 97, 34, 58, 34, 97, 34, 44,
        34, 98, 34, 58, 34, 97, 34, 125>>,                        \* {"a":"a","b":"a"}
      <<49>> \o Rep(48, 127) }                                    \* 1 and 127 zeros

InitEnd ==
    /\ InitCommon
    /\ text \in [Parsers -> EndTexts]
    /\ text[2] = <<>>
    /\ free = [t \in Parsers |-> FALSE]
    /\ oom = FALSE
    /\ eos \in [Parsers -> EndValues]
    /\ eos[2] = EOF

NextEnd ==
    \/ Start
    \/ Parse(1)

SpecEnd == InitEnd /\ [][NextEnd]_vars /\ WF_vars(NextEnd)

(********************************** claims *********************************)
\* the value the last call of p->get returned to parser t
LastGot(t) == IF pos[t] > 0 /\ pos[t] <= Len(text[t]) THEN text[t][pos[t]] ELSE eos[t]

\* jstream returned to the caller of parser t
Ended(t) == status[t] \in {"done", "skipped", "dumped"}
Failed(t) == Ended(t) /\ p[t].error # ERR_NONE
Succeeded(t) == Ended(t) /\ p[t].error = ERR_NONE

\* the blocks of the heap that parser t allocated and that are still allocated
LiveBlocks(t) == {b \in DOMAIN heap : heap[b].owner = t}

\* C1: for every text that jstream parses successfully, jstream_skip applied
\* to the start of the buffer returns the position p->size words after the
\* start: the walk of the top-level value consumes the whole buffer.
C1_SkipConsumesBuffer ==
    \A t \in Parsers : status[t] \in {"skipped", "dumped"} => skipped[t] = p[t].size

\* C2: whenever jstream ends with an error, whatever the code and wherever an
\* allocation failed, no block allocated during the parse is still allocated,
\* p->obj is NULL and jstream returned NULL.
C2_ReleasedOnError ==
    \A t \in Parsers :
        Failed(t) => LiveBlocks(t) = {} /\ p[t].obj = NULL /\ result[t] = NULL

\* an allocation failed at the fourth call of jstream_expand, three arrays
\* deep, after three calls had built and moved the buffer
C2_FailedDeep ==
    /\ Failed(1)
    /\ p[1].error = ERR_MEMORY
    /\ p[1].size = 6
    /\ pos[1] >= 4
    /\ SubSeq(text[1], 1, 4) = <<CH_LBRACKET, CH_LBRACKET, CH_LBRACKET, CH_1>>
    /\ LiveBlocks(1) = {}

\* C3: the text jstream_dump writes for the buffer of a successful parse is
\* parsed successfully, into a buffer equal to the first word for word
\* (a second parse that ran out of memory says nothing).
C3_RoundTrip ==
    (Ended(2) /\ p[2].error # ERR_MEMORY) =>
        p[2].error = ERR_NONE /\ Buffer(2) = Buffer(1)

\* what a text says about its values: for each value, in the order in which
\* the values start, its tag and, for an array or an object, the number n of
\* the values written directly inside it.  i is the next index of s, stk the
\* places in out of the arrays and objects that are open, tok whether a
\* numeral or a literal is being read.
Counted(out, stk) ==
    IF stk = <<>> THEN out ELSE [out EXCEPT ![stk[Len(stk)]].n = @ + 1]

\* the index of the '"' that closes the string opened at index i
CloseQuote(s, i) ==
    LET S == {j \in (i + 1) .. Len(s) : s[j] = CH_QUOTE} IN
    IF S = {} THEN Len(s) ELSE CHOOSE j \in S : \A k \in S : j <= k

\* the characters at which a numeral or a literal that is being read ends
TokenStop == WS \cup {CH_COMMA, CH_COLON, CH_QUOTE, CH_LBRACKET, CH_LBRACE, CH_RBRACKET, CH_RBRACE}

\* the index after the numeral or literal that starts at index i
TokenEnd(s, i) ==
    LET S == {j \in i .. Len(s) : s[j] \in TokenStop} IN
    IF S = {} THEN Len(s) + 1 ELSE CHOOSE j \in S : \A k \in S : j <= k

RECURSIVE TextShape(_, _, _, _, _)
TextShape(s, i, stk, out, tok) ==
    IF i > Len(s) THEN out
    ELSE LET c == s[i] IN
         IF c = CH_QUOTE
         THEN TextShape(s, CloseQuote(s, i) + 1, stk,
                        Append(Counted(out, stk), [tag |-> TAG_STRING, n |-> 0]), FALSE)
         ELSE IF c \in {CH_LBRACKET, CH_LBRACE}
         THEN TextShape(s, i + 1, Append(stk, Len(out) + 1),
                        Append(Counted(out, stk),
                               [tag |-> IF c = CH_LBRACKET THEN TAG_ARRAY ELSE TAG_OBJECT,
                                n |-> 0]),
                        FALSE)
         ELSE IF c \in {CH_RBRACKET, CH_RBRACE}
         THEN TextShape(s, i + 1, SubSeq(stk, 1, Len(stk) - 1), out, FALSE)
         ELSE IF c \in WS \cup {CH_COMMA, CH_COLON}
         THEN TextShape(s, i + 1, stk, out, FALSE)
         ELSE IF tok THEN TextShape(s, i + 1, stk, out, TRUE)
         ELSE TextShape(s, TokenEnd(s, i), stk,
                        Append(Counted(out, stk),
                               [tag |-> CASE c = CH_t -> TAG_TRUE
                                          [] c = CH_f -> TAG_FALSE
                                          [] c = CH_n -> TAG_NULL
                                          [] OTHER -> TAG_NUMBER,
                                n |-> 0]),
                        TRUE)

\* what a buffer says about its values: for each value from offset o on, in
\* the order of the words, its tag and, for an array, its count word, for an
\* object, twice its count word (a pair is two values); one entry of tag
\* Wild where the words stop being values
RECURSIVE BufShape(_, _)
BufShape(w, o) ==
    IF o >= Len(w) THEN <<>>
    ELSE LET tag == WordAt(w, o, 0) IN
         IF tag \in {TAG_NULL, TAG_TRUE, TAG_FALSE}
         THEN <<[tag |-> tag, n |-> 0]>> \o BufShape(w, o + 1)
         ELSE IF tag = TAG_NUMBER /\ HasDouble(w, o)
         THEN <<[tag |-> tag, n |-> 0]>> \o BufShape(w, o + 1 + SZ_DOUBLE \div SZ_UNSIGNED)
         ELSE IF tag = TAG_STRING /\ StrLenAt(w, o) # Wild
         THEN <<[tag |-> tag, n |-> 0]>>
              \o BufShape(w, o + 1 + jstream_align(StrLenAt(w, o) + 1))
         ELSE IF tag \in {TAG_ARRAY, TAG_OBJECT} /\ WordAt(w, o, 1) # Wild
         THEN <<[tag |-> tag,
                 n |-> IF tag = TAG_OBJECT THEN 2 * WordAt(w, o, 1) ELSE WordAt(w, o, 1)]>>
              \o BufShape(w, o + 2)
         ELSE <<[tag |-> Wild, n |-> 0]>>

\* the characters of the text of parser t before the one in p->clast
ValueText(t) == SubSeq(text[t], 1, pos[t] - 1)

NoNul(s) == \A i \in 1 .. Len(s) : s[i] # CH_NUL

\* C4: after a successful parse of a text without a NUL, the values of the
\* buffer are the values of the text, in the order of the text, and the count
\* word of every array (object) is the number of the elements (pairs)
\* written directly inside it, at every depth and however often the buffer
\* moved; [] and {} are the tag and a count of 0.
C4_CountsAreElements ==
    \A t \in Parsers :
        (Succeeded(t) /\ NoNul(ValueText(t))) =>
            BufShape(Buffer(t), 0) = TextShape(ValueText(t), 1, <<>>, <<>>, FALSE)

\* [[[1],{}],"a"] was parsed: the outer arrays have 2 elements each, the
\* inner one 1, the object none
C4_NestedCounts ==
    /\ Succeeded(1)
    /\ Len(text[1]) = 14
    /\ SubSeq(text[1], 1, 4) = <<CH_LBRACKET, CH_LBRACKET, CH_LBRACKET, CH_1>>
    /\ BufShape(Buffer(1), 0) =
         << [tag |-> TAG_ARRAY, n |-> 2], [tag |-> TAG_ARRAY, n |-> 2],
            [tag |-> TAG_ARRAY, n |-> 1], [tag |-> TAG_NUMBER, n |-> 0],
            [tag |-> TAG_OBJECT, n |-> 0], [tag |-> TAG_STRING, n |-> 0] >>

\* the index of the last character of s before index k that is not white; 0
\* when there is none
PrevBlack(s, k) ==
    LET S == {i \in 1 .. (k - 1) : i <= Len(s) /\ s[i] \notin WS} IN
    IF S = {} THEN 0 ELSE CHOOSE i \in S : \A j \in S : j <= i

\* s[k] is a ']' that follows a ',' with nothing but white between them, and
\* no string starts before it
TrailingComma(s, k) ==
    /\ k <= Len(s)
    /\ s[k] = CH_RBRACKET
    /\ PrevBlack(s, k) > 0
    /\ s[PrevBlack(s, k)] = CH_COMMA
    /\ \A i \in 1 .. k : s[i] # CH_QUOTE

\* C5: a parse that reads a ']' right after a ',' (white apart) ends there
\* with ERR_VALUE and returns NULL: the ']' is taken for the start of a
\* value; no such text is parsed into a shorter array.
C5_TrailingCommaIsValueError ==
    \A t \in Parsers :
        Ended(t) =>
            \A k \in 1 .. pos[t] :
                TrailingComma(text[t], k) =>
                    p[t].error = ERR_VALUE /\ result[t] = NULL /\ pos[t] = k

\* C5 as stated: the parse ends there with ERR_CLOSED_BRACKET
C5_TrailingCommaIsBracketError ==
    \A t \in Parsers :
        Ended(t) =>
            \A k \in 1 .. pos[t] :
                TrailingComma(text[t], k) =>
                    p[t].error = ERR_CLOSED_BRACKET /\ result[t] = NULL /\ pos[t] = k

\* [1,2,] was read to its end and the parse failed
C5_ParsedTrailingComma ==
    /\ Failed(1)
    /\ text[1] = <<CH_LBRACKET, CH_1, CH_COMMA, 50, CH_COMMA, CH_RBRACKET>>
    /\ pos[1] = 6
    /\ p[1].error = ERR_VALUE

\* the three literals: the function, the word, the error code and the tag
Literals ==
    { [pc |-> "true", word |-> Lit_true, err |-> ERR_TRUE, tag |-> TAG_TRUE],
      [pc |-> "false", word |-> Lit_false, err |-> ERR_FALSE, tag |-> TAG_FALSE],
      [pc |-> "null", word |-> Lit_null, err |-> ERR_NULL, tag |-> TAG_NULL] }

\* parser t is in the function of literal L and the last n characters it
\* read are the first n of the word
ReadPrefix(t, L, n) ==
    /\ At(t, L.pc)
    /\ n <= pos[t]
    /\ pos[t] <= Len(text[t])
    /\ SubSeq(text[t], pos[t] - n + 1, pos[t]) = SubSeq(L.word, 1, n)

\* what the call of p->get of this step returned
GotNow(t) == IF pos'[t] <= Len(text'[t]) THEN text'[t][pos'[t]] ELSE eos[t]

\* C6: after a correctly spelled literal, a white character, one of ]},: or
\* the end of the input makes the literal accepted, with its tag as the one
\* word added to the buffer (unless the allocation of the word fails); any
\* other character fails with the error of the literal.
C6_LiteralFollowers ==
    [][\A t \in Parsers : \A L \in Literals :
        (ReadPrefix(t, L, Len(L.word)) /\ pos'[t] = pos[t] + 1) =>
            IF GotNow(t) \in LitFollow \cup {EOF}
            THEN \/ status'[t] = "done" /\ p'[t].error = ERR_MEMORY
                 \/ /\ status'[t] = "run"
                    /\ p'[t].size = p[t].size + 1
                    /\ heap'[p'[t].obj].words[p'[t].size] = Word(L.tag)
            ELSE status'[t] = "done" /\ p'[t].error = L.err]_vars

\* C7: when the characters after 't', 'f' or 'n' stop spelling the literal
\* (a wrong character or the end of the input), the parse fails at that
\* character with ERR_TRUE, ERR_FALSE or ERR_NULL and returns NULL.
C7_MisspeltLiteral ==
    [][\A t \in Parsers : \A L \in Literals : \A n \in 1 .. (Len(L.word) - 1) :
        (ReadPrefix(t, L, n) /\ pos'[t] = pos[t] + 1 /\ GotNow(t) # L.word[n + 1]) =>
            status'[t] = "done" /\ p'[t].error = L.err /\ result'[t] = NULL]_vars

\* tru and the end of the input: ERR_TRUE
C7_TruThenEnd ==
    /\ Failed(1)
    /\ text[1] = <<CH_t, CH_r, CH_u>>
    /\ pos[1] = 4
    /\ p[1].error = ERR_TRUE

\* C8: a parse that runs while another thread parses ends with the same
\* error code and the same buffer as when it ran alone, for every
\* interleaving of the steps of the two threads.
C8_SameAsAlone ==
    \A t \in Parsers :
        (status[t] = "done" /\ alone[t].known) =>
            /\ p[t].error = alone[t].error
            /\ p[t].error = ERR_NONE => Buffer(t) = alone[t].words

\* the characters a value can end with: the closing '"', ']' and '}', the
\* last letter of a literal, the last character of a numeral
ValueEnd == {CH_QUOTE, CH_RBRACKET, CH_RBRACE, CH_e, CH_l} \cup Digits \cup {CH_DOT}

\* C9: when jstream succeeds, p->clast is the value of the last call of the
\* source, it is not white, and nothing but white lies between the last
\* character of the value and it: the characters were read once each, up
\* to the first one after the value that is not white.
C9_ClastFollowsValue ==
    \A t \in Parsers :
        Succeeded(t) =>
            /\ p[t].clast = LastGot(t)
            /\ p[t].clast \notin WS
            /\ PrevBlack(text[t], pos[t]) > 0
            /\ text[t][PrevBlack(text[t], pos[t])] \in ValueEnd

\* C10: when jstream fails, p->clast is the last character that was read
\* from the source before the error was raised.
C10_ClastIsLastRead ==
    \A t \in Parsers : Failed(t) => p[t].clast = LastGot(t)

\* the double of the Number value at the start of the buffer of parser t
TopDouble(t) == Buffer(t)[2][2]

\* C11: a text that starts with a numeral (the run of the characters of
\* 0123456789.+-eE at its start) of at most 127 characters never fails with
\* ERR_NUMBER_TOO_LONG, and when it is parsed the value is the conversion of
\* the whole numeral; a run of 128 characters or more fails with
\* ERR_NUMBER_TOO_LONG (a parse that ran out of memory says nothing).
C11_NumeralBound ==
    \A t \in Parsers :
        ( /\ Ended(t)
          /\ p[t].error # ERR_MEMORY
          /\ text[t] # <<>>
          /\ text[t][1] \in Digits \cup {CH_MINUS} ) =>
            LET n == Run(text[t], 1, NumChars) IN
            IF n >= 128 THEN p[t].error = ERR_NUMBER_TOO_LONG
            ELSE /\ p[t].error # ERR_NUMBER_TOO_LONG
                 /\ p[t].error = ERR_NONE =>
                        /\ HasDouble(Buffer(t), 0)
                        /\ TopDouble(t) = strtod(SubSeq(text[t], 1, n)).d

\* C12: for a source that returns a negative value, whichever, on every call
\* after the end of its text, jstream returns, with success or with an error.
C12_Returns == <>Ended(1)

RECURSIVE StringKeys(_, _)
RECURSIVE StringKeysLoop(_, _, _, _)
\* the n members left of an array or object, the first at offset o: every key
\* among them, and inside them, is a String
StringKeysLoop(w, o, n, pairs) ==
    IF n <= 0 THEN TRUE
    ELSE IF pairs
    THEN /\ WordAt(w, o, 0) = TAG_STRING
         /\ StringKeys(w, jstream_skip(w, o))
         /\ StringKeysLoop(w, jstream_skip(w, jstream_skip(w, o)), n - 1, pairs)
    ELSE /\ StringKeys(w, o)
         /\ StringKeysLoop(w, jstream_skip(w, o), n - 1, pairs)

\* every key of every Object of the value at offset o is a String
StringKeys(w, o) ==
    LET tag == WordAt(w, o, 0) IN
    IF tag \in {TAG_ARRAY, TAG_OBJECT}
    THEN StringKeysLoop(w, o + 2, WordAt(w, o, 1), tag = TAG_OBJECT)
    ELSE TRUE

\* C13: in the buffer of every successful parse (of a text without NUL) the
\* key of every pair of every Object is a String value; an object with
\* another kind of value at a key position is not accepted.
C13_KeysAreStrings ==
    \A t \in Parsers :
        (Succeeded(t) /\ NoNul(text[t])) => StringKeys(Buffer(t), 0)

\* the error codes of the header other than ERR_NONE
ErrorCodes ==
    {ERR_MEMORY, ERR_VALUE, ERR_NULL, ERR_FALSE, ERR_TRUE, ERR_NUMBER,
     ERR_NUMBER_TOO_LONG, ERR_EOS_INSIDE_STRING, ERR_COMMA, ERR_COLON,
     ERR_CLOSED_BRACKET}

C15_NextSkipsWhite ==
    [][\A t \in Parsers :
        (At(t, "next") /\ pos'[t] # pos[t]) =>
            /\ p'[t].clast = GotNow(t)
            /\ (stack'[t] = stack[t]) <=> (GotNow(t) \in WS)]_vars

\* the production the grammar gives for a value that starts with c
Production(c) ==
    IF c = CH_LBRACKET THEN "array"
    ELSE IF c = CH_LBRACE THEN "object"
    ELSE IF c = CH_QUOTE THEN "string"
    ELSE IF c \in (CH_0 .. CH_9) \cup {CH_MINUS} THEN "number"
    ELSE IF c = CH_f THEN "false"
    ELSE IF c = CH_n THEN "null"
    ELSE IF c = CH_t THEN "true"
    ELSE "none"

\* C16: jstream_value selects the production by the current character, the
\* last one read from the source, alone: '[' Array, '{' Object, '"' String,
\* a digit or '-' Number, 'f' False, 'n' Null, 't' True; for anything else
\* the parse fails there with ERR_VALUE and returns NULL.
C16_DispatchByCharacter ==
    [][\A t \in Parsers :
        (At(t, "value") /\ stack'[t] # stack[t]) =>
            /\ p[t].clast = LastGot(t)
            /\ IF Production(LastGot(t)) = "none"
               THEN /\ status'[t] = "done"
                    /\ p'[t].error = ERR_VALUE
                    /\ result'[t] = NULL
               ELSE /\ status'[t] = "run"
                    /\ Head(stack'[t]).pc = Production(LastGot(t))
                    /\ Tail(stack'[t]) = Tail(stack[t])
                    /\ pos'[t] = pos[t]
                    /\ p'[t] = p[t]]_vars

\* ERR_VALUE at the first character of the text +1
C16_PlusIsNoValue ==
    /\ Failed(1) /\ p[1].error = ERR_VALUE
    /\ text[1] = <<CH_PLUS, CH_1>>
    /\ pos[1] = 1

\* s starts with pre
StartsWith(s, pre) == Len(pre) <= Len(s) /\ SubSeq(s, 1, Len(pre)) = pre

\* the index of the first character of s at or after i that is not one of
\* the four white characters; Len(s) + 1 when there is none
Black(s, i) == i + Run(s, i, WS)

\* the character of the text of parser t at index i: the end of the stream
\* after the last one
CharAt(t, i) == IF i <= Len(text[t]) THEN text[t][i] ELSE eos[t]

\* texts of values that end where they end whatever follows them ...
ClosedValues == {<<CH_QUOTE, CH_QUOTE>>, <<CH_LBRACKET, CH_RBRACKET>>, <<CH_LBRACE, CH_RBRACE>>}
\* ... a numeral, which ends at the first character that is not of a numeral
NumeralValues == {<<CH_1>>}
\* ... and a literal, which ends at a character that may follow a literal
LiteralValues == {<<CH_t, CH_r, CH_u, CH_e>>}

\* the text of parser t starts with pre and v, v is a value of its own, and
\* the first character after it that is not white is at index i
ValueThen(t, pre, v, i) ==
    /\ StartsWith(text[t], pre \o v)
    /\ i = Black(text[t], Len(pre \o v) + 1)
    /\ v \in NumeralValues => CharAt(t, Len(pre \o v) + 1) \notin NumChars
    /\ v \in LiteralValues => CharAt(t, Len(pre \o v) + 1) \in LitFollow \cup {eos[t]}

\* C17: in an object the first character after a key that is not white must
\* be ':', otherwise the parse fails with ERR_COLON; the first one
\* after a member's value that is not white must be '}', which ends the
\* object, or ',', after which the parse goes on; any other character, ']'
\* and the end of the input among them, fails with ERR_COMMA.
C17_ObjectSeparators ==
    \A t \in Parsers : \A i \in 1 .. (Len(text[t]) + 1) :
        (Ended(t) /\ p[t].error # ERR_MEMORY) =>
            /\ ValueThen(t, <<CH_LBRACE>>, <<CH_QUOTE, CH_QUOTE>>, i) =>
                    IF CharAt(t, i) = CH_COLON THEN pos[t] > i
                    ELSE p[t].error = ERR_COLON
            /\ \A v \in ClosedValues \cup NumeralValues \cup LiteralValues :
                ValueThen(t, <<CH_LBRACE, CH_QUOTE, CH_QUOTE, CH_COLON>>, v, i) =>
                    IF CharAt(t, i) = CH_RBRACE THEN p[t].error = ERR_NONE
                    ELSE IF CharAt(t, i) = CH_COMMA THEN pos[t] > i
                    ELSE p[t].error = ERR_COMMA

\* C18: in an array the first character after an element that is not white
\* decides: after ',' the parse goes on, ']' closes the array, and any other
\* character, '}', ':' and the end of the input among them, fails with
\* ERR_CLOSED_BRACKET.
C18_ArraySeparators ==
    \A t \in Parsers : \A i \in 1 .. (Len(text[t]) + 1) :
        \A v \in ClosedValues \cup NumeralValues \cup LiteralValues :
            (Ended(t) /\ p[t].error # ERR_MEMORY /\ ValueThen(t, <<CH_LBRACKET>>, v, i)) =>
                IF CharAt(t, i) = CH_RBRACKET THEN p[t].error = ERR_NONE
                ELSE IF CharAt(t, i) = CH_COMMA THEN pos[t] > i
                ELSE p[t].error = ERR_CLOSED_BRACKET

\* C19: a String with L bytes between the opening '"' and the first '"' after
\* it is encoded as the tag STRING, those L bytes in the order of the text
\* (a backslash like any other byte) and one zero byte, in exactly
\* ceil((L + 1) / sizeof(unsigned)) words after the tag, for every L.
C19_StringEncoding ==
    \A t \in Parsers :
        (Succeeded(t) /\ text[t] # <<>> /\ text[t][1] = CH_QUOTE) =>
            LET L == CloseQuote(text[t], 1) - 2
                w == Buffer(t) IN
            /\ w[1] = Word(TAG_STRING)
            /\ p[t].size = 1 + (L + SZ_UNSIGNED) \div SZ_UNSIGNED
            /\ Len(w) = p[t].size
            /\ \A k \in 1 .. L : ByteAt(w, 0, k - 1) = text[t][k + 1]
            /\ ByteAt(w, 0, L) = CH_NUL

\* s is one decimal floating-point literal: an optional sign, digits with an
\* optional '.' among them, before them or after them, and an optional
\* exponent of 'e' or 'E', an optional sign and digits
ValidNumeral(s) ==
    LET sg == IF s # <<>> /\ s[1] \in {CH_PLUS, CH_MINUS} THEN 1 ELSE 0
        ni == Run(s, sg + 1, Digits)
        dot == IF sg + ni < Len(s) /\ s[sg + ni + 1] = CH_DOT THEN 1 ELSE 0
        nf == IF dot = 1 THEN Run(s, sg + ni + 2, Digits) ELSE 0
        m == sg + ni + dot + nf
        es == IF m + 1 < Len(s) /\ s[m + 2] \in {CH_PLUS, CH_MINUS} THEN 1 ELSE 0
    IN  /\ ni + nf > 0
        /\ \/ m = Len(s)
           \/ /\ m < Len(s)
              /\ s[m + 1] \in {CH_e, CH_UE}
              /\ m + 1 + es < Len(s)
              /\ Run(s, m + 2 + es, Digits) = Len(s) - (m + 1 + es)

\* C20: for a text that starts with a digit or '-', whose run of characters
\* of a numeral is shorter than the buffer of jstream_number: when the run
\* is not, as a whole, one decimal floating-point literal the parse fails
\* with ERR_NUMBER; otherwise the buffer is the tag NUMBER and the
\* sizeof(double) / sizeof(unsigned) words of a double.
C20_NumeralValidity ==
    \A t \in Parsers :
        ( /\ Ended(t)
          /\ p[t].error # ERR_MEMORY
          /\ text[t] # <<>>
          /\ text[t][1] \in Digits \cup {CH_MINUS}
          /\ Run(text[t], 1, NumChars) < NUMBUF ) =>
            IF ValidNumeral(SubSeq(text[t], 1, Run(text[t], 1, NumChars)))
            THEN /\ p[t].error = ERR_NONE
                 /\ p[t].size = 1 + SZ_DOUBLE \div SZ_UNSIGNED
                 /\ Buffer(t)[1] = Word(TAG_NUMBER)
                 /\ HasDouble(Buffer(t), 0)
            ELSE p[t].error = ERR_NUMBER

\* the words the step at the head of the call stack of parser t asks of
\* jstream_expand; 0 when the step does not call it
Requested(t) ==
    LET pc == Head(stack[t]).pc IN
    IF pc \in {"array", "object"} THEN 2
    ELSE IF pc = "string" THEN 1
    ELSE IF pc = "number:conv" THEN 1 + SZ_DOUBLE \div SZ_UNSIGNED
    ELSE IF pc = "string:scan" THEN BUFNUM
    ELSE IF pc = "string:end"
    THEN jstream_align(Len(CStr([strbuf EXCEPT ![Head(stack[t]).j] = CH_NUL], STRBUF)) + 1)
    ELSE IF pc \in {"true", "false", "null"} THEN 1
    ELSE 0

\* C21: a step of a parse in which jstream_expand(p, n) succeeds sets
\* p->size to n when p->obj was NULL and adds n to it otherwise, gives the
\* caller the offset of the first new word, which is the old p->size (the
\* caller's tag is written there), and leaves the words written before at
\* their offsets; any other step leaves p->size alone, so p->size is always
\* the number of words reserved so far, and the length of the block.
C21_ExpandAddsExactly ==
    [][\A t \in Parsers :
        (status[t] = "run" /\ stack[t] # <<>> /\ p'[t].error = ERR_NONE) =>
            IF p'[t].size = p[t].size
            THEN p[t].obj # NULL =>
                    /\ p'[t].obj = p[t].obj
                    /\ Len(heap'[p'[t].obj].words) = p[t].size
            ELSE /\ (p[t].obj = NULL) = (p[t].size = 0)
                 /\ p'[t].size = p[t].size + Requested(t)
                 /\ p'[t].obj # NULL
                 /\ Len(heap'[p'[t].obj].words) = p'[t].size
                 /\ heap'[p'[t].obj].words[p[t].size + 1] # IndetWord
                 /\ \A k \in 1 .. p[t].size :
                        heap'[p'[t].obj].words[k] = heap[p[t].obj].words[k]]_vars

\* a parse that has reserved the tag of a string and one chunk of BUFNUM
\* words is about to reserve the last words of the string
C21_ThirdReservation ==
    /\ At(1, "string:end")
    /\ p[1].size = 1 + BUFNUM
    /\ Len(heap[p[1].obj].words) = p[1].size

RECURSIVE ValuePositions(_, _)
RECURSIVE PositionsLoop(_, _, _)
\* the positions the walk of n values in a row hands to jstream_skip, the
\* first of them o; the walk is followed as far as its positions are defined
PositionsLoop(w, o, n) ==
    IF n <= 0 \/ o < 0 THEN {}
    ELSE ValuePositions(w, o) \cup PositionsLoop(w, jstream_skip(w, o), n - 1)

\* the value positions of the value at offset o: o and those inside it
ValuePositions(w, o) ==
    {o} \cup
    IF WordAt(w, o, 0) = TAG_ARRAY THEN PositionsLoop(w, o + 2, WordAt(w, o, 1))
    ELSE IF WordAt(w, o, 0) = TAG_OBJECT THEN PositionsLoop(w, o + 2, 2 * WordAt(w, o, 1))
    ELSE {}

Tags == {TAG_NULL, TAG_FALSE, TAG_TRUE, TAG_NUMBER, TAG_STRING, TAG_ARRAY, TAG_OBJECT}

\* C22: at every value position of the buffer of a successful parse
\* jstream_dump returns the position that jstream_skip returns, and at a
\* word that is not a tag both return NULL.
C22_DumpAgreesWithSkip ==
    \A t \in Parsers :
        Succeeded(t) =>
            \A o \in ValuePositions(Buffer(t), 0) :
                /\ jstream_dump(Buffer(t), o).next = jstream_skip(Buffer(t), o)
                /\ WordAt(Buffer(t), o, 0) \notin Tags \cup {Wild} =>
                        /\ jstream_skip(Buffer(t), o) = NullPos
                        /\ jstream_dump(Buffer(t), o).next = NullPos

\* a buffer in which the walk comes to a word that is not a tag, and one
\* with values inside values
C22_WalkedInvalidTag ==
    /\ Succeeded(1)
    /\ \E o \in ValuePositions(Buffer(1), 0) : WordAt(Buffer(1), o, 0) \notin Tags \cup {Wild}

\* C23: the walk of the buffer of a successful parse from its start, by
\* jstream_skip or by jstream_dump, finds a tag of 0..6 at every value
\* position, reads no word at or after offset p->size, and never returns
\* NULL.
C23_WalkFindsOnlyTags ==
    \A t \in Parsers :
        Succeeded(t) =>
            \A o \in ValuePositions(Buffer(t), 0) :
                /\ o < p[t].size
                /\ WordAt(Buffer(t), o, 0) \in Tags
                /\ jstream_skip(Buffer(t), o) \notin {NullPos, Wild}
                /\ jstream_dump(Buffer(t), o).next \notin {NullPos, Wild}

\* C24: once the source of a parse has returned the end signal -1, the parse
\* calls it no more; when the parse then succeeds, the end signal is the
\* lookahead character in p->clast, otherwise it returns with an error.
C24_NoReadAfterEnd ==
    [][\A t \in Parsers :
        (pos[t] > Len(text[t]) /\ eos[t] = EOF /\ status[t] = "run") =>
            /\ pos'[t] = pos[t]
            /\ text'[t] = text[t]
            /\ status'[t] = "done" =>
                    \/ p'[t].error = ERR_NONE /\ p'[t].clast = EOF /\ result'[t] # NULL
                    \/ p'[t].error # ERR_NONE /\ result'[t] = NULL]_vars

\* the end signal was returned to a function that jstream_value called, and
\* the parse has not returned yet
C24_EndInsideNested ==
    /\ status[1] = "run"
    /\ pos[1] = Len(text[1]) + 1
    /\ ~free[1]
    /\ Len(stack[1]) >= 3
    /\ p[1].clast = EOF

====
